---- MODULE Spec2Model ----
(***************************************************************************)
(* A model of the Remix value store of koji-core                           *)
(* (src/src/frontend/remix/index.ts): the class Remix, its three fields,   *)
(* its public methods and the messages it exchanges with the host frame    *)
(* through the KojiBridge it extends.                                      *)
(*                                                                         *)
(* The model describes the class in a browser (typeof window is not        *)
(* 'undefined'), which is where the host frame of the specification lives: *)
(* the constructor then registers its IsRemixing callback.                 *)
(*                                                                         *)
(* JavaScript values are tagged records [k, v]:                            *)
(*   k = "undef"   undefined (an omitted argument, a missing property)     *)
(*   k = "scalar"  a number v (0 is the falsy one)                         *)
(*   k = "str"     a string v ("" is the falsy one)                        *)
(*   k = "bool"    a boolean v                                             *)
(*   k = "seq"     an array, v a sequence of values                        *)
(*   k = "map"     a plain object, v a function from its keys to values    *)
(***************************************************************************)
EXTENDS Integers, Sequences, FiniteSets, TLC

VARIABLES
    values,                     \* Remix.values
    isInitialized,              \* Remix.isInitialized
    hasReceivedReadyResponse,   \* Remix.hasReceivedReadyResponse (ReadyFlag)
    KOJI_OVERRIDES,             \* window.KOJI_OVERRIDES
    sent,                       \* messages dispatched to the host, in order
    requests,                   \* the promises of sendMessageAndAwaitResponse
    lastCall                    \* the last method call and how it ended

vars == <<values, isInitialized, hasReceivedReadyResponse, KOJI_OVERRIDES,
          sent, requests, lastCall>>

(***************************************************************************)
(* Bounds.                                                                 *)
(***************************************************************************)
\* messages the store may dispatch in one behaviour
MaxSent == 1
\* longest path handed to get
MaxPathLen == 2

(***************************************************************************)
(* Values.                                                                 *)
(***************************************************************************)
Undef == [k |-> "undef", v |-> 0]
S(n) == [k |-> "scalar", v |-> n]
Str(s) == [k |-> "str", v |-> s]
B(b) == [k |-> "bool", v |-> b]
A(s) == [k |-> "seq", v |-> s]
M(f) == [k |-> "map", v |-> f]
EmptyFcn == [x \in {} |-> Undef]
EmptyObject == M(EmptyFcn)

\* Array.isArray(x)
IsArray(x) == x.k = "seq"
\* deepmerge's default isMergeableObject: a non-null object (array or plain)
IsMergeableObject(x) == x.k \in {"seq", "map"}
\* Object.keys(x): the keys of a plain object, none for a number or a boolean
Keys(x) == IF x.k = "map" THEN DOMAIN x.v ELSE {}
\* JavaScript truthiness: !x is true of undefined, 0, "" and false
Truthy(x) == CASE x.k = "undef" -> FALSE
               [] x.k = "scalar" -> x.v # 0
               [] x.k = "str" -> x.v # ""
               [] x.k = "bool" -> x.v
               [] OTHER -> TRUE
\* x[key] of a value: undefined when x has no such property
Prop(x, key) == IF key \in Keys(x) THEN x.v[key] ELSE Undef

(***************************************************************************)
(* deepmerge(target, source, {arrayMerge}) as Remix calls it.              *)
(***************************************************************************)
\* a different way to combine two arrays: concatenation (deepmerge's default)
ArrayMergeConcat(dest, source) == A(dest.v \o source.v)

\* the arrayMerge option: (dest, source) => source
ArrayMerge(dest, source) == source

RECURSIVE deepmerge(_, _)
\* deepmerge's mergeObject: the target's properties, then the source's over them
mergeObject(target, source) ==
    M([key \in Keys(target) \cup Keys(source) |->
        IF key \notin Keys(source) THEN target.v[key]
        ELSE IF key \in Keys(target) /\ IsMergeableObject(source.v[key])
             THEN deepmerge(target.v[key], source.v[key])
             ELSE source.v[key]])

deepmerge(target, source) ==
    IF IsArray(source) # IsArray(target) THEN source
    ELSE IF IsArray(source) THEN ArrayMerge(target, source)
    ELSE mergeObject(target, source)

(***************************************************************************)
(* utils/get: the nested lookup behind Remix.get.                          *)
(***************************************************************************)
RECURSIVE utils_get(_, _, _)
utils_get(object, path, defaultValue) ==
    IF path = <<>> THEN object
    ELSE IF Head(path) \in Keys(object)
         THEN utils_get(object.v[Head(path)], Tail(path), defaultValue)
         ELSE defaultValue

(***************************************************************************)
(* The inputs of the model.                                                *)
(***************************************************************************)
KeyA == "a"
KeyB == "b"
Obj1(k1, v1) == M([x \in {k1} |-> v1])
Obj2(k1, v1, k2, v2) == M([x \in {k1, k2} |-> IF x = k1 THEN v1 ELSE v2])

\* the ValueTrees handed to init, set and overwrite: between them a nested
\* mapping on both sides, arrays of different lengths on both sides, and a
\* number where the other tree has a mapping
TreeA == Obj2(KeyA, Obj1(KeyA, S(1)), KeyB, A(<<S(1), S(2)>>))
TreeB == Obj2(KeyA, Obj1(KeyB, S(2)), KeyB, A(<<S(3)>>))
TreeC == Obj1(KeyA, S(1))
Trees == {EmptyObject, TreeA, TreeB, TreeC}

\* what init may be handed: a tree, or nothing, or a falsy value
InitArgs == Trees \cup {Undef, S(0)}

\* the states of window.KOJI_OVERRIDES the proxy server may leave
Environments == {
    Undef,
    EmptyObject,
    Obj1("overrides", EmptyObject),
    Obj1("overrides", Obj1("remixData", TreeA)),
    Obj1("overrides", Obj1("remixData", TreeB)) }

PathKeys == {KeyA, KeyB}
RECURSIVE PathsOfLen(_)
PathsOfLen(n) ==
    IF n = 0 THEN {<<>>}
    ELSE {Append(p, key) : p \in PathsOfLen(n - 1), key \in PathKeys}
\* the paths handed to get: one key at least
Paths == UNION {PathsOfLen(n) : n \in 1..MaxPathLen}
\* the fallback handed to get: a value no tree holds
Fallbacks == {S(9)}

(***************************************************************************)
(* Messages and the bridge (KojiBridge, which Remix extends).              *)
(***************************************************************************)
IsRemixing == "KojiPreview.IsRemixing"
SetValue == "KojiPreview.SetValue"
DidChangeVcc == "KojiPreview.DidChangeVcc"
Finish == "KojiPreview.Finish"
Cancel == "KojiPreview.Cancel"
EncryptValue == "KojiPreview.EncryptValue"
ValueEncrypted == "KojiPreview.ValueEncrypted"
DecryptValue == "KojiPreview.DecryptValue"
ValueDecrypted == "KojiPreview.ValueDecrypted"

\* the events the host may post to the frame
InboundEvents == {IsRemixing, DidChangeVcc, ValueEncrypted, ValueDecrypted}
\* the data the host may attach to them
HostPayloads == {
    Undef,
    Obj2("encryptedValue", Str("enc"), "decryptedValue", Str("dec")) }
\* the values handed to encryptValue and decryptValue
RawValues == {Str("raw")}

Message(name, data) == [kojiEventName |-> name, data |-> data]

\* the message sendValues builds from a tree
SetValueMessage(tree) ==
    Message(SetValue,
            M([x \in {"path", "newValue", "skipUpdate"} |->
                CASE x = "path" -> A(<<Str("remixData")>>)
                  [] x = "newValue" -> tree
                  [] OTHER -> B(FALSE)]))

\* a promise of sendMessageAndAwaitResponse, by its place in requests
Promise(i) == [k |-> "promise", v |-> i]

\* KojiBridge.sendMessage: dispatch to the host, nothing awaited
sendMessage(msg) ==
    /\ Len(sent) < MaxSent
    /\ sent' = Append(sent, msg)

\* KojiBridge.sendMessageAndAwaitResponse: dispatch, then wait for the reply
sendMessageAndAwaitResponse(op, msg, reply) ==
    /\ sendMessage(msg)
    /\ requests' = Append(requests,
           [op |-> op, reply |-> reply, state |-> "pending", value |-> Undef])

(***************************************************************************)
(* How a call ended.                                                       *)
(***************************************************************************)
\* new Error('Unable to find remixData')
ConfigurationError == "ConfigurationError"
\* new Error('You are trying to initialize ... more than one time ...'),
\* new Error('... before calling `Koji.ready() ...')
StateError == "StateError"

Call(op, arg, outcome, ret) ==
    [op |-> op, arg |-> arg, hasPath |-> FALSE, path |-> <<>>,
     outcome |-> outcome, ret |-> ret]
NoCall == Call("none", Undef, "none", Undef)

(***************************************************************************)
(* The initial state: the module's `new Remix()`.                          *)
(***************************************************************************)
Init ==
    /\ values = EmptyObject
    /\ isInitialized = FALSE
    /\ hasReceivedReadyResponse = FALSE
    /\ KOJI_OVERRIDES \in Environments
    /\ sent = <<>>
    /\ requests = <<>>
    /\ lastCall = NoCall

(***************************************************************************)
(* The methods of Remix.                                                   *)
(***************************************************************************)
\* the overrides init reads from window.KOJI_OVERRIDES
overrides ==
    IF Truthy(KOJI_OVERRIDES) /\ Truthy(Prop(KOJI_OVERRIDES, "overrides"))
    THEN LET remixData == Prop(Prop(KOJI_OVERRIDES, "overrides"), "remixData")
         IN  IF Truthy(remixData) THEN remixData ELSE EmptyObject
    ELSE EmptyObject

\* the two checks the other way round
initThrowsStateFirst(remixData) ==
    IF isInitialized THEN StateError
    ELSE IF ~Truthy(remixData) THEN ConfigurationError
    ELSE "none"

\* the checks without the one on isInitialized
initThrowsOnlyAbsent(remixData) ==
    IF ~Truthy(remixData) THEN ConfigurationError ELSE "none"

\* what init throws, "none" when it goes on
initThrows(remixData) ==
    IF ~Truthy(remixData) THEN ConfigurationError
    ELSE IF isInitialized THEN StateError
    ELSE "none"

\* the merge the wrong way round: the defaults over the overrides
initMergeDefaultsWin(remixData) == deepmerge(overrides, remixData)

\* the merge made over the tree the store holds
initMergeOverCurrent(remixData) ==
    deepmerge(deepmerge(remixData, values), overrides)

\* the tree init computes
initMerge(remixData) == deepmerge(remixData, overrides)

init(remixData) ==
    \/ /\ initThrows(remixData) # "none"
       /\ lastCall' = Call("init", remixData, initThrows(remixData), Undef)
       /\ UNCHANGED <<values, isInitialized, hasReceivedReadyResponse,
                      KOJI_OVERRIDES, sent, requests>>
    \/ /\ initThrows(remixData) = "none"
       /\ isInitialized' = TRUE
       /\ values' = initMerge(remixData)
       /\ lastCall' = Call("init", remixData, "returned", Undef)
       /\ UNCHANGED <<hasReceivedReadyResponse, KOJI_OVERRIDES, sent, requests>>

\* get(): path omitted
getAll ==
    /\ lastCall' = Call("get", Undef, "returned", values)
    /\ UNCHANGED <<values, isInitialized, hasReceivedReadyResponse,
                   KOJI_OVERRIDES, sent, requests>>

\* get(path, defaultValue) that does not hand defaultValue on
getWithoutDefault(path, defaultValue) ==
    /\ lastCall' = [Call("get", defaultValue, "returned",
                         utils_get(values, path, Undef))
                    EXCEPT !.hasPath = TRUE, !.path = path]
    /\ UNCHANGED <<values, isInitialized, hasReceivedReadyResponse,
                   KOJI_OVERRIDES, sent, requests>>

\* get(path, defaultValue)
get(path, defaultValue) ==
    /\ lastCall' = [Call("get", defaultValue, "returned",
                         utils_get(values, path, defaultValue))
                    EXCEPT !.hasPath = TRUE, !.path = path]
    /\ UNCHANGED <<values, isInitialized, hasReceivedReadyResponse,
                   KOJI_OVERRIDES, sent, requests>>

\* sendValues that does not wait for the reply: its promise is settled at once
sendValuesNoAwait(v) ==
    /\ sendMessage(SetValueMessage(v))
    /\ requests' = Append(requests,
           [op |-> "sendValues", reply |-> DidChangeVcc,
            state |-> "resolved", value |-> B(TRUE)])

\* sendValues(): push the current tree, which is v when it is called
sendValues(v) ==
    sendMessageAndAwaitResponse("sendValues", SetValueMessage(v), DidChangeVcc)

\* set that pushes the merged tree but leaves the local tree for the reply
setWithoutLocalWrite(newValue) ==
    \/ /\ ~hasReceivedReadyResponse
       /\ lastCall' = Call("set", newValue, StateError, Undef)
       /\ UNCHANGED <<values, isInitialized, hasReceivedReadyResponse,
                      KOJI_OVERRIDES, sent, requests>>
    \/ /\ hasReceivedReadyResponse
       /\ sendValues(deepmerge(values, newValue))
       /\ lastCall' = Call("set", newValue, "returned", Promise(Len(requests')))
       /\ UNCHANGED <<values, isInitialized, hasReceivedReadyResponse,
                      KOJI_OVERRIDES>>

\* set without its readiness check
setUnguarded(newValue) ==
    /\ values' = deepmerge(values, newValue)
    /\ sendValues(values')
    /\ lastCall' = Call("set", newValue, "returned", Promise(Len(requests')))
    /\ UNCHANGED <<isInitialized, hasReceivedReadyResponse, KOJI_OVERRIDES>>

set(newValue) ==
    \/ /\ ~hasReceivedReadyResponse
       /\ lastCall' = Call("set", newValue, StateError, Undef)
       /\ UNCHANGED <<values, isInitialized, hasReceivedReadyResponse,
                      KOJI_OVERRIDES, sent, requests>>
    \/ /\ hasReceivedReadyResponse
       /\ values' = deepmerge(values, newValue)
       /\ sendValues(values')
       /\ lastCall' = Call("set", newValue, "returned", Promise(Len(requests')))
       /\ UNCHANGED <<isInitialized, hasReceivedReadyResponse, KOJI_OVERRIDES>>

\* overwrite merging into the tree, as set does
overwriteMerging(newValues) ==
    /\ values' = deepmerge(values, newValues)
    /\ sendValues(values')
    /\ lastCall' = Call("overwrite", newValues, "returned", Promise(Len(requests')))
    /\ UNCHANGED <<isInitialized, hasReceivedReadyResponse, KOJI_OVERRIDES>>

overwrite(newValues) ==
    /\ values' = newValues
    /\ sendValues(values')
    /\ lastCall' = Call("overwrite", newValues, "returned", Promise(Len(requests')))
    /\ UNCHANGED <<isInitialized, hasReceivedReadyResponse, KOJI_OVERRIDES>>

\* finish without its readiness check
finishUnguarded ==
    /\ sendMessage(Message(Finish, Undef))
    /\ lastCall' = Call("finish", Undef, "returned", Undef)
    /\ UNCHANGED <<values, isInitialized, hasReceivedReadyResponse,
                   KOJI_OVERRIDES, requests>>

finish ==
    \/ /\ ~hasReceivedReadyResponse
       /\ lastCall' = Call("finish", Undef, StateError, Undef)
       /\ UNCHANGED <<values, isInitialized, hasReceivedReadyResponse,
                      KOJI_OVERRIDES, sent, requests>>
    \/ /\ hasReceivedReadyResponse
       /\ sendMessage(Message(Finish, Undef))
       /\ lastCall' = Call("finish", Undef, "returned", Undef)
       /\ UNCHANGED <<values, isInitialized, hasReceivedReadyResponse,
                      KOJI_OVERRIDES, requests>>

cancel ==
    /\ sendMessage(Message(Cancel, Undef))
    /\ lastCall' = Call("cancel", Undef, "returned", Undef)
    /\ UNCHANGED <<values, isInitialized, hasReceivedReadyResponse,
                   KOJI_OVERRIDES, requests>>

encryptValue(rawValue) ==
    /\ sendMessageAndAwaitResponse("encryptValue",
           Message(EncryptValue, Obj1("plaintextValue", rawValue)),
           ValueEncrypted)
    /\ lastCall' = Call("encryptValue", rawValue, "returned", Promise(Len(requests')))
    /\ UNCHANGED <<values, isInitialized, hasReceivedReadyResponse, KOJI_OVERRIDES>>

decryptValue(encryptedValue) ==
    /\ sendMessageAndAwaitResponse("decryptValue",
           Message(DecryptValue, Obj1("encryptedValue", encryptedValue)),
           ValueDecrypted)
    /\ lastCall' = Call("decryptValue", encryptedValue, "returned", Promise(Len(requests')))
    /\ UNCHANGED <<values, isInitialized, hasReceivedReadyResponse, KOJI_OVERRIDES>>

(***************************************************************************)
(* The host posts a message: every listener registered for its name runs,  *)
(* the constructor's callback for IsRemixing and the listener of every     *)
(* request still waiting for that name.                                    *)
(***************************************************************************)
\* what the awaiting method makes of the reply's data
Settle(r, data) ==
    CASE r.op = "sendValues" ->
            [r EXCEPT !.state = "resolved", !.value = B(Truthy(data))]
      [] r.op = "encryptValue" ->
            IF data.k = "undef" THEN [r EXCEPT !.state = "rejected"]
            ELSE [r EXCEPT !.state = "resolved",
                           !.value = Prop(data, "encryptedValue")]
      [] OTHER ->
            IF data.k = "undef" THEN [r EXCEPT !.state = "rejected"]
            ELSE [r EXCEPT !.state = "resolved",
                           !.value = Prop(data, "decryptedValue")]

\* a callback that flips the flag
IsRemixingCallbackFlips == ~hasReceivedReadyResponse

\* the constructor's callback: this.hasReceivedReadyResponse = true
IsRemixingCallback == TRUE

Receive(event, data) ==
    /\ hasReceivedReadyResponse' =
           IF event = IsRemixing THEN IsRemixingCallback
           ELSE hasReceivedReadyResponse
    /\ requests' = [i \in DOMAIN requests |->
           IF requests[i].state = "pending" /\ requests[i].reply = event
           THEN Settle(requests[i], data)
           ELSE requests[i]]
    /\ UNCHANGED <<values, isInitialized, KOJI_OVERRIDES, sent, lastCall>>

Next ==
    \/ \E remixData \in InitArgs : init(remixData)
    \/ getAll
    \/ \E path \in Paths, defaultValue \in Fallbacks : get(path, defaultValue)
    \/ \E newValue \in Trees : set(newValue)
    \/ \E newValues \in Trees : overwrite(newValues)
    \/ finish
    \/ cancel
    \/ \E rawValue \in RawValues : encryptValue(rawValue)
    \/ \E encryptedValue \in RawValues : decryptValue(encryptedValue)
    \/ \E event \in InboundEvents, data \in HostPayloads : Receive(event, data)

Spec == Init /\ [][Next]_vars

(***************************************************************************)
(* Properties.                                                             *)
(***************************************************************************)
\* the step is a call of method op: a call changes one of these, and a
\* message from the host changes none of them
CallStep(op) ==
    /\ lastCall'.op = op
    /\ <<values, isInitialized, sent, lastCall>>'
           # <<values, isInitialized, sent, lastCall>>

\* C1: while the host's IsRemixing message has not been received, a call of
\* set fails with StateError, thrown at the call (no promise is returned, no
\* request made), whatever partial it is handed, and changes nothing
C1_SetBeforeReadyFails ==
    [][(~hasReceivedReadyResponse /\ CallStep("set")) =>
          /\ lastCall'.outcome = StateError
          /\ lastCall'.ret = Undef
          /\ UNCHANGED <<values, sent, requests>>]_vars

\* a set handed TreeB was refused before the readiness signal
C1_Witness ==
    /\ ~hasReceivedReadyResponse
    /\ lastCall.op = "set"
    /\ lastCall.arg = TreeB
    /\ lastCall.outcome = StateError

\* r is t with s merged into it: it has the keys of both; a key of t alone
\* keeps t's value; where both hold a mapping the two are merged key by key;
\* everywhere else (a sequence, a number, a key of s alone) s's value stands
\* as it is
RECURSIVE MergesInto(_, _, _)
MergesInto(r, t, s) ==
    /\ r.k = "map"
    /\ DOMAIN r.v = Keys(t) \cup Keys(s)
    /\ \A key \in DOMAIN r.v :
          IF key \notin Keys(s) THEN r.v[key] = t.v[key]
          ELSE IF key \in Keys(t) /\ t.v[key].k = "map" /\ s.v[key].k = "map"
               THEN MergesInto(r.v[key], t.v[key], s.v[key])
               ELSE r.v[key] = s.v[key]

\* TreeA with TreeB merged into it
TreeAB == Obj2(KeyA, Obj2(KeyA, S(1), KeyB, S(2)), KeyB, A(<<S(3)>>))

\* C2: after the readiness signal, a call of set merges partial into the
\* tree (mappings key by key, sequences replaced) and dispatches exactly one
\* message: SetValue, with path ["remixData"], skipUpdate false and the whole
\* merged tree as newValue
C2_SetMergesAndPushesOnce ==
    [][(hasReceivedReadyResponse /\ CallStep("set")) =>
          /\ lastCall'.outcome = "returned"
          /\ MergesInto(values', values, lastCall'.arg)
          /\ Len(sent') = Len(sent) + 1
          /\ SubSeq(sent', 1, Len(sent)) = sent
          /\ LET msg == sent'[Len(sent')]
             IN  /\ msg.kojiEventName = "KojiPreview.SetValue"
                 /\ Keys(msg.data) = {"path", "newValue", "skipUpdate"}
                 /\ msg.data.v["path"] = A(<<Str("remixData")>>)
                 /\ msg.data.v["skipUpdate"] = B(FALSE)
                 /\ msg.data.v["newValue"] = values']_vars

\* set(TreeB) on TreeA: the nested mappings are merged, the sequence [1, 2]
\* is replaced by [3], and the one message sent carries the merged tree
C2_Witness ==
    /\ hasReceivedReadyResponse
    /\ lastCall.op = "set"
    /\ lastCall.arg = TreeB
    /\ lastCall.outcome = "returned"
    /\ values = TreeAB
    /\ Len(sent) = 1
    /\ sent[1].data.v["newValue"] = TreeAB

\* the override tree the environment supplies, empty when it supplies none
OverrideSet ==
    IF \E t \in Trees : KOJI_OVERRIDES = Obj1("overrides", Obj1("remixData", t))
    THEN KOJI_OVERRIDES.v["overrides"].v["remixData"]
    ELSE EmptyObject

\* C3: a successful init(D) leaves the tree D with the environment's override
\* tree O merged into it (sequences of O replacing those of D, mappings merged
\* key by key), and the get() that follows it returns that tree
C3_InitThenGetIsMerge ==
    [][/\ (CallStep("init") /\ lastCall'.outcome = "returned") =>
            MergesInto(values', lastCall'.arg, OverrideSet)
       /\ (/\ lastCall.op = "init"
           /\ lastCall.outcome = "returned"
           /\ CallStep("get")
           /\ ~lastCall'.hasPath) =>
            /\ lastCall'.outcome = "returned"
            /\ MergesInto(lastCall'.ret, lastCall.arg, OverrideSet)]_vars

\* get() after init(TreeA) under the override tree TreeB (nothing was sent:
\* there was no set and no overwrite)
C3_Witness ==
    /\ KOJI_OVERRIDES = Obj1("overrides", Obj1("remixData", TreeB))
    /\ isInitialized
    /\ sent = <<>>
    /\ lastCall.op = "get"
    /\ ~lastCall.hasPath
    /\ lastCall.ret = TreeAB

\* C4: initialization happens once: the initialized flag never returns to
\* false, and once it is set every call of init with defaults that are not
\* absent fails with StateError and leaves the tree as it was
C4_InitOnce ==
    [][/\ isInitialized => isInitialized'
       /\ (isInitialized /\ CallStep("init") /\ Truthy(lastCall'.arg)) =>
            /\ lastCall'.outcome = StateError
            /\ UNCHANGED <<values, sent, requests>>]_vars

\* a second init, handed TreeC, was refused after a set had changed the tree
C4_Witness ==
    /\ isInitialized
    /\ lastCall.op = "init"
    /\ lastCall.arg = TreeC
    /\ lastCall.outcome = StateError
    /\ Len(sent) = 1
    /\ sent[1].kojiEventName = SetValue

\* C5: init with absent defaults fails with ConfigurationError in every
\* state and changes nothing: it does not mark the store initialized, and on
\* a store that is not initialized the next init with defaults present
\* succeeds
C5_InitAbsentDefaults ==
    [][/\ (CallStep("init") /\ lastCall'.arg = Undef) =>
            /\ lastCall'.outcome = ConfigurationError
            /\ UNCHANGED <<values, isInitialized, sent, requests>>
       /\ (/\ lastCall.op = "init"
           /\ lastCall.arg = Undef
           /\ ~isInitialized
           /\ CallStep("init")
           /\ Truthy(lastCall'.arg)) =>
            /\ lastCall'.outcome = "returned"
            /\ isInitialized']_vars

\* init() with nothing was refused with ConfigurationError on a store that
\* was initialized already
C5_Witness ==
    /\ isInitialized
    /\ lastCall.op = "init"
    /\ lastCall.arg = Undef
    /\ lastCall.outcome = ConfigurationError

\* C6: while ReadyFlag is false, no call of set or overwrite changes the
\* tree or dispatches a message
C6_ReadyGatesWrites ==
    [][(~hasReceivedReadyResponse /\ (CallStep("set") \/ CallStep("overwrite")))
          => UNCHANGED <<values, sent>>]_vars

\* C7: overwrite has no precondition: every call of it returns, leaves the
\* tree equal to newTree with nothing of the previous tree merged in, and
\* dispatches one SetValue message carrying newTree; the get() that follows
\* returns newTree
C7_OverwriteReplaces ==
    [][/\ CallStep("overwrite") =>
            /\ lastCall'.outcome = "returned"
            /\ values' = lastCall'.arg
            /\ Len(sent') = Len(sent) + 1
            /\ SubSeq(sent', 1, Len(sent)) = sent
            /\ sent'[Len(sent')].kojiEventName = "KojiPreview.SetValue"
            /\ Prop(sent'[Len(sent')].data, "newValue") = lastCall'.arg
       /\ (lastCall.op = "overwrite" /\ CallStep("get") /\ ~lastCall'.hasPath) =>
            lastCall'.ret = lastCall.arg]_vars

\* overwrite(TreeC) before the readiness signal, on a store that init had
\* left holding another tree
C7_Witness ==
    /\ ~hasReceivedReadyResponse
    /\ isInitialized
    /\ lastCall.op = "overwrite"
    /\ lastCall.arg = TreeC
    /\ lastCall.outcome = "returned"
    /\ values = TreeC
    /\ Len(sent) = 1

\* following the keys of path from obj: whether every segment is there, and
\* the value at the end
RECURSIVE Walk(_, _)
Walk(obj, path) ==
    IF path = <<>> THEN [found |-> TRUE, value |-> obj]
    ELSE IF obj.k = "map" /\ Head(path) \in DOMAIN obj.v
         THEN Walk(obj.v[Head(path)], Tail(path))
         ELSE [found |-> FALSE, value |-> Undef]

\* C8: get only reads: without a path it returns the whole tree; with a path
\* it returns the value the keys lead to, and the fallback when a segment is
\* absent; it never fails and changes neither the tree, the two flags, the
\* messages sent nor the pending requests
C8_GetIsPureLookup ==
    [][CallStep("get") =>
          /\ lastCall'.outcome = "returned"
          /\ UNCHANGED <<values, isInitialized, hasReceivedReadyResponse,
                         sent, requests>>
          /\ lastCall'.ret =
                IF ~lastCall'.hasPath THEN values
                ELSE IF Walk(values, lastCall'.path).found
                     THEN Walk(values, lastCall'.path).value
                     ELSE lastCall'.arg]_vars

\* get(["a", "a"], 9) on TreeB, which has a but not a.a: the fallback
C8_Witness ==
    /\ values = TreeB
    /\ lastCall.op = "get"
    /\ lastCall.hasPath
    /\ lastCall.path = <<KeyA, KeyA>>
    /\ lastCall.ret = S(9)

\* C9: finish fails with StateError and dispatches nothing while ReadyFlag
\* is false; once it is true, finish dispatches exactly one Finish message,
\* creates no pending request, returns no promise and leaves the tree alone
C9_Finish ==
    [][CallStep("finish") =>
          IF ~hasReceivedReadyResponse
          THEN /\ lastCall'.outcome = StateError
               /\ UNCHANGED <<values, sent, requests>>
          ELSE /\ lastCall'.outcome = "returned"
               /\ lastCall'.ret = Undef
               /\ sent' = Append(sent, [kojiEventName |-> "KojiPreview.Finish",
                                        data |-> Undef])
               /\ UNCHANGED <<values, requests>>]_vars

\* finish() after the readiness signal: one Finish message, nothing pending
C9_Witness ==
    /\ hasReceivedReadyResponse
    /\ lastCall.op = "finish"
    /\ lastCall.outcome = "returned"
    /\ Len(sent) = 1
    /\ sent[1].kojiEventName = Finish
    /\ requests = <<>>

\* C10: ReadyFlag starts false; a step that changes it is the host's
\* IsRemixing message arriving, never a call of a method; once true it stays
\* true, whatever arrives
C10_ReadyFlagOnce ==
    /\ ~hasReceivedReadyResponse
    /\ [][/\ hasReceivedReadyResponse => hasReceivedReadyResponse'
          /\ hasReceivedReadyResponse' # hasReceivedReadyResponse =>
               /\ \E data \in HostPayloads : Receive(IsRemixing, data)
               /\ UNCHANGED <<values, isInitialized, sent, lastCall>>]_vars

\* ReadyFlag is true after the reply to a set arrived: set is accepted only
\* after the readiness signal, so the reply came after it
C10_Witness ==
    /\ hasReceivedReadyResponse
    /\ lastCall.op = "set"
    /\ lastCall.outcome = "returned"
    /\ requests[lastCall.ret.v].state = "resolved"

\* the reply each request-and-await operation waits for
ExpectedReply(op) ==
    CASE op = "sendValues" -> "KojiPreview.DidChangeVcc"
      [] op = "encryptValue" -> "KojiPreview.ValueEncrypted"
      [] OTHER -> "KojiPreview.ValueDecrypted"

\* C11: a request-and-await operation is pending from the moment its request
\* is sent, whatever arrived before; it is settled only by a step in which
\* the host's message of its expected reply name arrives, so it stays
\* pending as long as none does (no call and no other message ends it); and
\* once settled it never changes again
C11_SettledOnceByItsReply ==
    [][/\ Len(requests') >= Len(requests)
       /\ \A i \in DOMAIN requests' :
             i \notin DOMAIN requests =>
                /\ requests'[i].state = "pending"
                /\ requests'[i].reply = ExpectedReply(requests'[i].op)
       /\ \A i \in DOMAIN requests :
             /\ requests[i].state # "pending" => requests'[i] = requests[i]
             /\ requests'[i] # requests[i] =>
                   /\ requests'[i].state # "pending"
                   /\ \E data \in HostPayloads :
                         Receive(ExpectedReply(requests[i].op), data)]_vars

\* the push of a set was resolved by the host's DidChangeVcc
C11_Witness ==
    /\ lastCall.op = "set"
    /\ lastCall.outcome = "returned"
    /\ requests[lastCall.ret.v].op = "sendValues"
    /\ requests[lastCall.ret.v].state = "resolved"
    /\ requests[lastCall.ret.v].value = B(TRUE)

\* the last call was a set or an overwrite that returned its promise
WriteReturned ==
    /\ lastCall.op \in {"set", "overwrite"}
    /\ lastCall.outcome = "returned"

\* the tree that write pushed: newValue of the last message sent
PushedTree == Prop(sent[Len(sent)].data, "newValue")

\* C12: a write is applied locally at the call. When set (after the
\* readiness signal) or overwrite has returned its promise the tree is the
\* new one, the one pushed (for overwrite, newTree), while the push is
\* pending; get() returns it; and it stays so whatever the host does: a step
\* that settles a push, with true or with false, never changes the tree
C12_WriteIsLocalAndKept ==
    [][/\ (CallStep("set") \/ CallStep("overwrite")) /\ WriteReturned' =>
            /\ requests'[lastCall'.ret.v].state = "pending"
            /\ values' = PushedTree'
       /\ WriteReturned' =>
            /\ values' = PushedTree'
            /\ lastCall'.op = "overwrite" => values' = lastCall'.arg
       /\ (WriteReturned /\ CallStep("get") /\ ~lastCall'.hasPath) =>
            lastCall'.ret = PushedTree
       /\ requests' # requests /\ Len(requests') = Len(requests) =>
            values' = values]_vars

\* set(TreeB) on TreeA, its push resolved to false: the tree is still the
\* merged one
C12_Witness ==
    /\ lastCall.op = "set"
    /\ lastCall.arg = TreeB
    /\ lastCall.outcome = "returned"
    /\ requests[lastCall.ret.v].state = "resolved"
    /\ requests[lastCall.ret.v].value = B(FALSE)
    /\ values = TreeAB

\* C13: init does not read the tree and writes do not ask for
\* initialization: on a store not yet initialized overwrite is accepted, and
\* so is set after the readiness signal; the first init(D) that succeeds
\* sets the tree to D with the override tree merged in, whatever the writes
\* before it stored, and sends nothing (the host keeps the last tree pushed)
C13_InitDiscardsEarlierWrites ==
    [][/\ (~isInitialized /\ CallStep("overwrite")) =>
            /\ lastCall'.outcome = "returned"
            /\ values' = lastCall'.arg
       /\ (~isInitialized /\ hasReceivedReadyResponse /\ CallStep("set")) =>
            /\ lastCall'.outcome = "returned"
            /\ MergesInto(values', values, lastCall'.arg)
       /\ (~isInitialized /\ CallStep("init") /\ Truthy(lastCall'.arg)) =>
            /\ lastCall'.outcome = "returned"
            /\ MergesInto(values', lastCall'.arg, OverrideSet)
            /\ UNCHANGED <<sent, requests>>]_vars

\* init(TreeA), with no overrides, after overwrite(TreeC) on the store not
\* yet initialized: the tree is TreeA, the host was pushed TreeC and nothing
\* since
C13_Witness ==
    /\ isInitialized
    /\ lastCall.op = "init"
    /\ lastCall.arg = TreeA
    /\ lastCall.outcome = "returned"
    /\ OverrideSet = EmptyObject
    /\ values = TreeA
    /\ Len(sent) = 1
    /\ sent[1].kojiEventName = SetValue
    /\ Prop(sent[1].data, "newValue") = TreeC

====
